---- MODULE Spec2Model ----
(***************************************************************************)
(* A model of src/pages/SignDocument.tsx: the signing page of one device   *)
(* (desktop, mobile, or mobile in mode=sign), the signed_documents table   *)
(* it inserts into, and the postgres_changes INSERT stream it listens to.  *)
(* Other devices appear as inserts into the same table.                    *)
(* downloadSignedPdf, the overlay of a signed document's values onto the   *)
(* template's PDF, is modelled by the draw calls it makes.                 *)
(*                                                                         *)
(* Strings that the code inspects (form values) are sequences of           *)
(* characters, so that trim() and truthiness are computed, not assumed.    *)
(* The window resize listener (lines 161-168) is not modelled: isMobile    *)
(* keeps the value it had at mount.                                        *)
(***************************************************************************)
EXTENDS Integers, Sequences, FiniteSets, TLC

VARIABLES
    mounted,                 \* the page component is mounted
    templateId,              \* useParams().templateId                (140)
    template,                \* useState<Template | null>             (142)
    pdfUrl,                  \* useState<string | null>               (143)
    formValues,              \* useState<FormValues>                  (144)
    showSignaturePad,        \*                                       (145)
    activeField,             \* useState<string | null>               (146)
    isSaving,                \*                                       (147)
    error,                   \* useState<string | null>               (148)
    success,                 \*                                       (149)
    currentPage,             \*                                       (150)
    showQRCode,              \*                                       (151)
    currentFieldIndex,       \*                                       (152)
    signedDocument,          \*                                       (154)
    isMobile,                \*                                       (155)
    isSigningMode,           \* searchParams.get('mode') === 'sign'   (157)
    mobileSignatureComplete, \*                                       (158)
    loads,                   \* loadTemplate calls awaiting their select
    saveCtx,                 \* the handleSave call awaiting insert / getSignedDocument
    store,                   \* rows of table signed_documents, row i has id i
    events,                  \* INSERT notifications on their way to this client
    fetches,                 \* INSERT handlers awaiting getSignedDocument
    channels,                \* closures (templateId) of the live realtime channels
    changes,                 \* how often the route parameter has changed
    pdfOut                   \* what the last downloadSignedPdf call came to     (46-113)

vars == <<mounted, templateId, template, pdfUrl, formValues, showSignaturePad,
          activeField, isSaving, error, success, currentPage, showQRCode,
          currentFieldIndex, signedDocument, isMobile, isSigningMode,
          mobileSignatureComplete, loads, saveCtx, store, events, fetches,
          channels, changes, pdfOut>>

uiVars == <<showSignaturePad, activeField, currentPage, showQRCode,
            currentFieldIndex>>
envVars == <<store, events, fetches, channels, changes>>

(***************************************************************************)
(* Bounds of the model.                                                    *)
(***************************************************************************)
MaxRows == 2        \* rows ever inserted into signed_documents
MaxChanges == 1     \* changes of the route parameter while the page is mounted
MaxFields == 2      \* fields of a template drawn for the validation check
MaxValLen == 2      \* characters of a value drawn for the validation check

(***************************************************************************)
(* Strings.                                                                *)
(***************************************************************************)
SP == " "
Chars == {SP, "x"}

RECURSIVE SeqsUpTo(_, _)
SeqsUpTo(S, n) ==
    IF n = 0 THEN {<<>>}
    ELSE LET shorter == SeqsUpTo(S, n - 1)
         IN  shorter \cup {Append(s, c) : s \in {t \in shorter : Len(t) = n - 1}, c \in S}

Range(s) == {s[i] : i \in 1..Len(s)}

\* String.prototype.trim: strip leading, then trailing, white space.
RECURSIVE TrimStart(_)
TrimStart(s) == IF s # <<>> /\ Head(s) = SP THEN TrimStart(Tail(s)) ELSE s
RECURSIVE TrimEnd(_)
TrimEnd(s) ==
    IF s # <<>> /\ s[Len(s)] = SP THEN TrimEnd(SubSeq(s, 1, Len(s) - 1)) ELSE s
Trim(s) == TrimEnd(TrimStart(s))

(***************************************************************************)
(* Data model (lines 13-43).                                               *)
(***************************************************************************)
Field(label, type, required, x, y, pageNumber) ==
    [type |-> type, label |-> label, required |-> required,
     position |-> [x |-> x, y |-> y, pageNumber |-> pageNumber]]

Template(id, fields) ==
    [id |-> id, name |-> id, fields |-> fields, file_path |-> <<"pdf", id>>]

\* Rows of table templates.  A is the template of the spec's scenarios A-C.
TemplateIds == {"A", "B"}
TemplateDB ==
    [t \in TemplateIds |->
        IF t = "A"
        THEN Template("A", << Field("Name", "text", TRUE, 50, 100, 1),
                              Field("Sig", "signature", TRUE, 50, 300, 1) >>)
        ELSE Template("B", << Field("Name", "text", TRUE, 50, 100, 2) >>)]

NoTemplate == [id |-> "null", name |-> "null", fields |-> <<>>, file_path |-> <<>>]
NoUrl == <<>>
NoDoc == [id |-> 0]
NULL == "<null>"                       \* JavaScript null, as activeField holds it
Undefined == <<"<undefined>">>         \* JavaScript undefined, read from a map

Labels(t) == {t.fields[i].label : i \in 1..Len(t.fields)}

\* formValues[label]: the value under the key, undefined when the key is absent.
Get(fv, k) == IF k \in DOMAIN fv THEN fv[k] ELSE Undefined

\* !value for a string or undefined.
Falsy(v) == v = Undefined \/ v = <<>>

\* A computed property key: `[activeField!]` with activeField = null is "null".
PropertyKey(a) == IF a = NULL THEN "null" ELSE a

\* { ...prev, [k]: v }
Put(fv, k, v) == [l \in DOMAIN fv \cup {k} |-> IF l = k THEN v ELSE fv[l]]

\* { ...prev, ...upd }
MergeFormValues_prevWins(prev, upd) ==
    [l \in DOMAIN prev \cup DOMAIN upd |-> IF l \in DOMAIN prev THEN prev[l] ELSE upd[l]]
MergeFormValues(prev, upd) ==
    [l \in DOMAIN prev \cup DOMAIN upd |-> IF l \in DOMAIN upd THEN upd[l] ELSE prev[l]]

EmptyForm == [l \in {} |-> <<>>]

(***************************************************************************)
(* validateForm (lines 240-254), on a loaded template.                     *)
(***************************************************************************)
IsMissing_noTrim(fv, field) ==
    field.required /\ Falsy(Get(fv, field.label))
\* line 245: field.required && (!value || value.trim() === '')
IsMissing(fv, field) ==
    field.required /\ (Falsy(Get(fv, field.label)) \/ Trim(Get(fv, field.label)) = <<>>)

\* line 243: template.fields.filter(...), which keeps the order of the array
RECURSIVE FilterMissing(_, _)
FilterMissing(fields, fv) ==
    IF fields = <<>> THEN <<>>
    ELSE IF IsMissing(fv, Head(fields))
         THEN <<Head(fields)>> \o FilterMissing(Tail(fields), fv)
         ELSE FilterMissing(Tail(fields), fv)
missingFields(t, fv) == FilterMissing(t.fields, fv)

\* line 249: missingFields.map(f => f.label)
MissingLabels(t, fv) ==
    [i \in 1..Len(missingFields(t, fv)) |-> missingFields(t, fv)[i].label]

NoError == [kind |-> "none", labels |-> <<>>]
ValidationError(labels) == [kind |-> "validation", labels |-> labels]
PersistError == [kind |-> "persist", labels |-> <<>>]   \* 'Failed to save the document...'
LoadError == [kind |-> "load", labels |-> <<>>]         \* 'Failed to load document...'

\* the value validateForm returns
validateForm(t, fv) == t # NoTemplate /\ Len(missingFields(t, fv)) = 0

(***************************************************************************)
(* The store and what the page can be given.                               *)
(***************************************************************************)
Row(id, tid, fv, origin) ==
    [id |-> id, template_id |-> tid, form_values |-> fv, origin |-> origin]

\* getSignedDocument (lines 115-137) when the select succeeds: the row joined
\* with its template.
getSignedDocument(documentId) ==
    [id |-> documentId,
     template_id |-> store[documentId].template_id,
     form_values |-> store[documentId].form_values,
     template |-> TemplateDB[store[documentId].template_id]]

\* What an <input type="text">, an <input type="date"> and the signature
\* canvas can hand to the page.
TextInputs == {<<>>, <<SP>>, <<"x">>}
DateInputs == {<<>>, <<"x">>}
SignatureInputs == {<<"x">>}
InputsOf(type) == IF type = "date" THEN DateInputs ELSE TextInputs

\* The form_values of rows other devices insert.
RemoteForms(tid) ==
    IF tid = "A" THEN {[l \in {"Name", "Sig"} |-> <<"x">>]}
    ELSE {[l \in {"Name"} |-> <<"x">>]}

Idle == [phase |-> "idle", template_id |-> "null", form_values |-> EmptyForm,
         documentId |-> 0]

(***************************************************************************)
(* downloadSignedPdf (lines 46-113): the overlay of a signed document's    *)
(* values onto the pages of its template's PDF.  A draw operation is the   *)
(* call made on a page (drawText, drawImage) with its options; label names *)
(* the field the call was made for.  A character of a signature payload    *)
(* stands for a block of the data URL: "h" for the header before the       *)
(* comma, "A" and "t" for base64 text, "!" for text that is not base64.    *)
(***************************************************************************)
\* lines 48-50: { data, error } of storage.download, data being a Blob or null
NoData == [kind |-> "null", pages |-> <<>>]
Garbage == [kind |-> "garbage", pages |-> <<>>]
Pdf(heights) == [kind |-> "pdf", pages |-> heights]
PageHeights == {<<792>>, <<792, 500>>}
StorageResponses ==
    {[error |-> "denied", data |-> NoData],
     [error |-> NULL, data |-> NoData],
     [error |-> NULL, data |-> Garbage]}
    \cup {[error |-> NULL, data |-> Pdf(h)] : h \in PageHeights}

\* what an awaited call comes to: it throws, or it returns
Threw == [threw |-> TRUE, pages |-> <<>>, bytes |-> <<>>, width |-> 0, height |-> 0,
          ops |-> <<>>]
Pages(p) == [Threw EXCEPT !.threw = FALSE, !.pages = p]
Bytes(b) == [Threw EXCEPT !.threw = FALSE, !.bytes = b]
Image(w, h) == [Threw EXCEPT !.threw = FALSE, !.width = w, !.height = h]
Drew(ops) == [Threw EXCEPT !.threw = FALSE, !.ops = ops]

loadSource_lenient(resp) ==
    IF resp.error # NULL THEN Threw
    ELSE IF resp.data.kind = "null" THEN Threw
    ELSE Pages(resp.data.pages)
\* lines 52-55 and 61: the two throws, PDFDocument.load, getPages
loadSource(resp) ==
    IF resp.error # NULL THEN Threw
    ELSE IF resp.data.kind = "null" THEN Threw
    ELSE IF resp.data.kind # "pdf" THEN Threw
    ELSE Pages(resp.data.pages)

\* line 64: pages[pageNumber - 1], undefined outside the array
NoPage == [number |-> 0, height |-> 0]
pageOf_clamp(pages, pageNumber) ==
    IF pageNumber < 1 THEN [number |-> 1, height |-> pages[1]]
    ELSE IF pageNumber > Len(pages) THEN [number |-> Len(pages), height |-> pages[Len(pages)]]
    ELSE [number |-> pageNumber, height |-> pages[pageNumber]]
pageOf(pages, pageNumber) ==
    IF pageNumber \in 1..Len(pages)
    THEN [number |-> pageNumber, height |-> pages[pageNumber]]
    ELSE NoPage

\* line 67: doc.form_values[field.label] || ''
valueOf_placeholder(doc, label) ==
    IF Falsy(Get(doc.form_values, label)) THEN <<"x">> ELSE Get(doc.form_values, label)
valueOf(doc, label) ==
    IF Falsy(Get(doc.form_values, label)) THEN <<>> ELSE Get(doc.form_values, label)

\* line 71: value.split(',')[1], undefined when value holds no comma
RECURSIVE UpToComma(_)
UpToComma(s) ==
    IF s = <<>> \/ Head(s) = "," THEN <<>> ELSE <<Head(s)>> \o UpToComma(Tail(s))
RECURSIVE AfterComma(_)
AfterComma(s) ==
    IF s = <<>> THEN Undefined
    ELSE IF Head(s) = "," THEN UpToComma(Tail(s))
    ELSE AfterComma(Tail(s))

\* line 72: atob, which throws on text that is not base64 (the text
\* "undefined" included) and otherwise yields the bytes the text encodes
Base64 == [c \in {"A", "t"} |-> IF c = "A" THEN "png" ELSE "txt"]
atob(s) ==
    IF s = Undefined \/ \E k \in 1..Len(s) : s[k] \notin DOMAIN Base64 THEN Threw
    ELSE Bytes([k \in 1..Len(s) |-> Base64[s[k]]])

\* line 73: embedPng, which throws unless the bytes are a PNG image; the
\* image has its native size
PngSize == [width |-> 200, height |-> 100]
embedPng(bytes) ==
    IF bytes # <<>> /\ Head(bytes) = "png" THEN Image(PngSize.width, PngSize.height)
    ELSE Threw

\* line 74: signatureImage.scale(0.5); the native sizes drawn are even
scale(image) == [width |-> image.width \div 2, height |-> image.height \div 2]

\* lines 76-81: page.drawImage
drawImage_noHeight(field, dims, page) ==
    [kind |-> "image", page |-> page.number, label |-> field.label, text |-> <<>>,
     x |-> field.position.x,
     y |-> page.height - field.position.y,
     width |-> dims.width, height |-> dims.height]
drawImage(field, dims, page) ==
    [kind |-> "image", page |-> page.number, label |-> field.label, text |-> <<>>,
     x |-> field.position.x,
     y |-> page.height - field.position.y - dims.height,
     width |-> dims.width, height |-> dims.height]

\* lines 86-92: page.drawText
drawText(field, value, page) ==
    [kind |-> "text", page |-> page.number, label |-> field.label, text |-> value,
     x |-> field.position.x,
     y |-> page.height - field.position.y,
     width |-> 0, height |-> 0]

embedSignature_noCatch(field, value, page) ==
    LET decoded == atob(AfterComma(value))
        signatureImage == IF decoded.threw THEN Threw ELSE embedPng(decoded.bytes)
    IN  IF signatureImage.threw THEN Threw
        ELSE Drew(<<drawImage(field, scale(signatureImage), page)>>)
\* lines 70-84: the try block and its catch, which only logs
embedSignature(field, value, page) ==
    LET decoded == atob(AfterComma(value))
        signatureImage == IF decoded.threw THEN Threw ELSE embedPng(decoded.bytes)
    IN  IF signatureImage.threw THEN Drew(<<>>)
        ELSE Drew(<<drawImage(field, scale(signatureImage), page)>>)

\* lines 63-94: the loop over doc.template.fields, from field i on
RECURSIVE drawFields(_, _, _)
drawFields(doc, pages, i) ==
    IF i > Len(doc.template.fields) THEN Drew(<<>>)
    ELSE LET field == doc.template.fields[i]
             page == pageOf(pages, field.position.pageNumber)
             value == valueOf(doc, field.label)
             this == IF page = NoPage THEN Drew(<<>>)
                     ELSE IF field.type = "signature" /\ value # <<>>
                          THEN embedSignature(field, value, page)
                          ELSE Drew(<<drawText(field, value, page)>>)
             rest == drawFields(doc, pages, i + 1)
         IN  IF this.threw \/ rest.threw THEN Threw
             ELSE Drew(this.ops \o rest.ops)

\* What a call of downloadSignedPdf comes to: the file handed to the browser
\* (lines 96-107) with the operations drawn into it, or the rethrown error
\* (lines 108-112); source is the storage response the call was given.
NoResponse == [error |-> NULL, data |-> [kind |-> "none", pages |-> <<>>]]
NoOutput == [status |-> "idle", ops |-> <<>>, source |-> NoResponse]
flatten(doc, resp) ==
    LET loaded == loadSource(resp)
        drawn == IF loaded.threw THEN Threw ELSE drawFields(doc, loaded.pages, 1)
    IN  IF drawn.threw THEN [status |-> "error", ops |-> <<>>, source |-> resp]
        ELSE [status |-> "saved", ops |-> drawn.ops, source |-> resp]

(***************************************************************************)
(* What is rendered (lines 341-566).                                       *)
(***************************************************************************)
\* line 341: the mobile signing-mode screen replaces the whole page
CaptureOnly == isMobile /\ isSigningMode
\* line 356: past the loading / load-error screen
FullPage == mounted /\ ~CaptureOnly /\ template # NoTemplate /\ pdfUrl # NoUrl
\* line 407: the form, not the thank-you screen
FormShown == FullPage /\ ~success
\* line 507: the Next Field button is rendered, otherwise the Submit button is
HasNextField == currentFieldIndex < Len(template.fields) - 1
\* line 532: the desktop signature pad modal
PadModal == FormShown /\ showSignaturePad /\ activeField # NULL /\ ~isMobile
\* line 543: the QR code modal
QRModal == FormShown /\ ~isMobile /\ showQRCode /\ activeField # NULL
\* line 347: the capture screen of the secondary device
CaptureScreen == mounted /\ CaptureOnly /\ ~mobileSignatureComplete

Init ==
    /\ mounted = TRUE
    /\ templateId = "A"             \* B is reached by ChangeTemplate
    /\ template = NoTemplate
    /\ pdfUrl = NoUrl
    /\ formValues = EmptyForm
    /\ showSignaturePad = FALSE
    /\ activeField = NULL
    /\ isSaving = FALSE
    /\ error = NoError
    /\ success = FALSE
    /\ currentPage = 1
    /\ showQRCode = FALSE
    /\ currentFieldIndex = 0
    /\ signedDocument = NoDoc
    /\ isMobile \in BOOLEAN
    /\ isSigningMode \in BOOLEAN
    /\ isSigningMode => isMobile     \* on a desktop mode=sign changes nothing (line 341)
    /\ mobileSignatureComplete = FALSE
    /\ loads = {templateId}          \* the effect of lines 170-174 has run
    /\ saveCtx = Idle
    /\ store = <<>>
    /\ events = <<>>
    /\ fetches = {}
    /\ channels = {templateId}       \* the effect of lines 316-338 has run
    /\ changes = 0
    /\ pdfOut = NoOutput

(***************************************************************************)
(* loadTemplate (lines 183-206).                                           *)
(***************************************************************************)
loadTemplateOk_resetsSession(t) ==
    /\ t \in loads
    /\ loads' = loads \ {t}
    /\ IF mounted
       THEN /\ template' = TemplateDB[t]
            /\ pdfUrl' = <<"url">> \o TemplateDB[t].file_path
            /\ success' = FALSE
       ELSE UNCHANGED <<template, pdfUrl, success>>
    /\ UNCHANGED <<mounted, templateId, formValues, isSaving, error,
                   signedDocument, isMobile, isSigningMode,
                   mobileSignatureComplete, saveCtx>>
    /\ UNCHANGED uiVars
    /\ UNCHANGED envVars
    /\ UNCHANGED pdfOut

loadTemplateOk(t) ==
    /\ t \in loads
    /\ loads' = loads \ {t}
    /\ IF mounted
       THEN /\ template' = TemplateDB[t]
            /\ pdfUrl' = <<"url">> \o TemplateDB[t].file_path
       ELSE UNCHANGED <<template, pdfUrl>>
    /\ UNCHANGED <<mounted, templateId, formValues, isSaving, error, success,
                   signedDocument, isMobile, isSigningMode,
                   mobileSignatureComplete, saveCtx>>
    /\ UNCHANGED uiVars
    /\ UNCHANGED envVars
    /\ UNCHANGED pdfOut

loadTemplateFail(t) ==
    /\ t \in loads
    /\ loads' = loads \ {t}
    /\ error' = IF mounted THEN LoadError ELSE error
    /\ UNCHANGED <<mounted, templateId, template, pdfUrl, formValues, isSaving,
                   success, signedDocument, isMobile, isSigningMode,
                   mobileSignatureComplete, saveCtx>>
    /\ UNCHANGED uiVars
    /\ UNCHANGED envVars
    /\ UNCHANGED pdfOut

\* the Try Again button (lines 359-368)
TryAgain ==
    /\ mounted /\ ~CaptureOnly
    /\ template = NoTemplate \/ pdfUrl = NoUrl
    /\ error # NoError
    /\ loads' = loads \cup {templateId}
    /\ UNCHANGED <<mounted, templateId, template, pdfUrl, formValues, isSaving,
                   error, success, signedDocument, isMobile, isSigningMode,
                   mobileSignatureComplete, saveCtx>>
    /\ UNCHANGED uiVars
    /\ UNCHANGED envVars
    /\ UNCHANGED pdfOut

\* line 336: supabase.removeChannel(channel)
removeChannel_leak(chs, c) == chs
removeChannel(chs, c) == chs \ {c}
\* lines 317-333: supabase.channel(...).on(...).subscribe(), closing over t
subscribe(chs, t) == chs \cup {t}

\* The route parameter changes while the page stays mounted: the effects
\* keyed on [templateId] (lines 170-174 and 316-338) run again.  The removed
\* channel takes its undelivered notifications with it.
ChangeTemplate(t) ==
    /\ mounted
    /\ changes < MaxChanges
    /\ t \in TemplateIds /\ t # templateId
    /\ templateId' = t
    /\ loads' = loads \cup {t}
    /\ channels' = subscribe(removeChannel(channels, templateId), t)
    /\ events' = <<>>
    /\ changes' = changes + 1
    /\ UNCHANGED <<mounted, template, pdfUrl, formValues, isSaving, error,
                   success, signedDocument, isMobile, isSigningMode,
                   mobileSignatureComplete, saveCtx, store, fetches>>
    /\ UNCHANGED uiVars
    /\ UNCHANGED pdfOut

\* The page is left (Back, the capture screen's onCancel, any navigation):
\* the cleanup of line 336 runs.  Later setState calls do nothing.
Leave ==
    /\ mounted
    /\ mounted' = FALSE
    /\ channels' = removeChannel(channels, templateId)
    /\ events' = <<>>
    /\ UNCHANGED changes
    /\ UNCHANGED <<templateId, template, pdfUrl, formValues, isSaving, error,
                   success, signedDocument, isMobile, isSigningMode,
                   mobileSignatureComplete, loads, saveCtx, store, fetches>>
    /\ UNCHANGED uiVars
    /\ UNCHANGED pdfOut

(***************************************************************************)
(* Field handlers.                                                         *)
(***************************************************************************)
sessionRest == <<mounted, templateId, template, pdfUrl, isSaving, error, success,
                 signedDocument, isMobile, isSigningMode,
                 mobileSignatureComplete, loads, saveCtx>>

\* handleFieldClick (lines 208-221), from the PDFViewer's onFieldClick
handleFieldClick(i) ==
    /\ FormShown
    /\ i \in 1..Len(template.fields)
    /\ IF template.fields[i].type = "signature"
       THEN /\ activeField' = template.fields[i].label
            /\ showSignaturePad' = isMobile
            /\ showQRCode' = FALSE
            /\ currentPage' = template.fields[i].position.pageNumber
       ELSE UNCHANGED <<activeField, showSignaturePad, showQRCode, currentPage>>
    /\ UNCHANGED <<formValues, currentFieldIndex>>
    /\ UNCHANGED sessionRest
    /\ UNCHANGED envVars
    /\ UNCHANGED pdfOut

\* the Draw Signature button (lines 454-462)
DrawSignature ==
    /\ FormShown
    /\ \E i \in 1..Len(template.fields) :
          /\ template.fields[i].type = "signature"
          /\ activeField = template.fields[i].label
    /\ ~showSignaturePad /\ ~showQRCode /\ ~isMobile
    /\ showSignaturePad' = TRUE
    /\ UNCHANGED <<formValues, activeField, currentPage, showQRCode, currentFieldIndex>>
    /\ UNCHANGED sessionRest
    /\ UNCHANGED envVars
    /\ UNCHANGED pdfOut

\* the Sign on Mobile (QR Code) button (lines 463-470)
SignOnMobile ==
    /\ FormShown
    /\ \E i \in 1..Len(template.fields) :
          /\ template.fields[i].type = "signature"
          /\ activeField = template.fields[i].label
    /\ ~showSignaturePad /\ ~showQRCode /\ ~isMobile
    /\ showQRCode' = TRUE
    /\ UNCHANGED <<formValues, activeField, currentPage, showSignaturePad,
                   currentFieldIndex>>
    /\ UNCHANGED sessionRest
    /\ UNCHANGED envVars
    /\ UNCHANGED pdfOut

\* handleSignatureSave (lines 223-231): the onSave of the desktop pad modal
\* (line 536) and of the capture screen (line 349)
handleSignatureSave(signatureData) ==
    /\ PadModal \/ CaptureScreen
    /\ formValues' = Put(formValues, PropertyKey(activeField), signatureData)
    /\ showSignaturePad' = FALSE
    /\ activeField' = NULL
    /\ showQRCode' = FALSE
    /\ UNCHANGED <<currentPage, currentFieldIndex>>
    /\ UNCHANGED sessionRest
    /\ UNCHANGED envVars
    /\ UNCHANGED pdfOut

\* handleInputChange (lines 233-238), from the text and date inputs
handleInputChange(i, value) ==
    /\ FormShown
    /\ i \in 1..Len(template.fields)
    /\ template.fields[i].type # "signature"
    /\ value \in InputsOf(template.fields[i].type)
    /\ formValues' = Put(formValues, template.fields[i].label, value)
    /\ UNCHANGED uiVars
    /\ UNCHANGED sessionRest
    /\ UNCHANGED envVars
    /\ UNCHANGED pdfOut

\* handleCancelSignature (lines 296-300), the onCancel of the pad modal
handleCancelSignature ==
    /\ PadModal
    /\ showSignaturePad' = FALSE
    /\ showQRCode' = FALSE
    /\ activeField' = NULL
    /\ UNCHANGED <<formValues, currentPage, currentFieldIndex>>
    /\ UNCHANGED sessionRest
    /\ UNCHANGED envVars
    /\ UNCHANGED pdfOut

\* the Cancel button of the QR code modal (lines 549-557)
QRCancel ==
    /\ QRModal
    /\ showQRCode' = FALSE
    /\ showSignaturePad' = FALSE
    /\ UNCHANGED <<formValues, activeField, currentPage, currentFieldIndex>>
    /\ UNCHANGED sessionRest
    /\ UNCHANGED envVars
    /\ UNCHANGED pdfOut

handleNextField_noGate ==
    /\ FormShown
    /\ HasNextField
    /\ currentFieldIndex' = currentFieldIndex + 1
    /\ LET nextPage == template.fields[currentFieldIndex + 2].position.pageNumber
       IN  currentPage' = IF nextPage # 0 THEN nextPage ELSE currentPage
    /\ UNCHANGED <<formValues, showSignaturePad, activeField, showQRCode>>
    /\ UNCHANGED <<mounted, templateId, template, pdfUrl, isSaving, error, success,
                   signedDocument, isMobile, isSigningMode,
                   mobileSignatureComplete, loads, saveCtx>>
    /\ UNCHANGED envVars
    /\ UNCHANGED pdfOut

\* handleNextField (lines 302-313) behind the Next Field button (507-515),
\* which is disabled while the current field's value is falsy
handleNextField ==
    /\ FormShown
    /\ HasNextField
    /\ ~Falsy(Get(formValues, template.fields[currentFieldIndex + 1].label))
    /\ currentFieldIndex' = currentFieldIndex + 1
    /\ LET nextPage == template.fields[currentFieldIndex + 2].position.pageNumber
       IN  currentPage' = IF nextPage # 0 THEN nextPage ELSE currentPage
    /\ UNCHANGED <<formValues, showSignaturePad, activeField, showQRCode>>
    /\ UNCHANGED sessionRest
    /\ UNCHANGED envVars
    /\ UNCHANGED pdfOut

(***************************************************************************)
(* handleSave (lines 256-294) behind the Submit button (lines 517-524).    *)
(***************************************************************************)
\* the notification of an INSERT reaches this client if it has a live channel
Notify(id) == IF channels # {} THEN Append(events, id) ELSE events

saveRest == <<mounted, templateId, template, pdfUrl, formValues, success,
              isMobile, isSigningMode, loads>>

\* lines 257-271: the guards, validateForm, and the insert request going out
handleSave_noValidate ==
    /\ FormShown
    /\ ~HasNextField
    /\ ~(isSaving \/ success)
    /\ isSaving' = TRUE
    /\ error' = NoError
    /\ saveCtx' = [phase |-> "insert", template_id |-> templateId,
                   form_values |-> formValues, documentId |-> 0]
    /\ UNCHANGED <<signedDocument, mobileSignatureComplete>>
    /\ UNCHANGED saveRest
    /\ UNCHANGED uiVars
    /\ UNCHANGED envVars
    /\ UNCHANGED pdfOut

handleSave ==
    /\ FormShown
    /\ ~HasNextField
    /\ ~(isSaving \/ success)
    /\ IF validateForm(template, formValues)
       THEN /\ isSaving' = TRUE
            /\ error' = NoError
            /\ saveCtx' = [phase |-> "insert", template_id |-> templateId,
                           form_values |-> formValues, documentId |-> 0]
       ELSE /\ error' = ValidationError(MissingLabels(template, formValues))
            /\ UNCHANGED <<isSaving, saveCtx>>
    /\ UNCHANGED <<signedDocument, mobileSignatureComplete>>
    /\ UNCHANGED saveRest
    /\ UNCHANGED uiVars
    /\ UNCHANGED envVars
    /\ UNCHANGED pdfOut

\* lines 264-277: the insert succeeded and returned the row; getSignedDocument
\* is called with its id
saveInsertOk ==
    /\ saveCtx.phase = "insert"
    /\ Len(store) < MaxRows
    /\ LET id == Len(store) + 1
       IN  /\ store' = Append(store, Row(id, saveCtx.template_id,
                                         saveCtx.form_values, "local"))
           /\ events' = Notify(id)
           /\ saveCtx' = [saveCtx EXCEPT !.phase = "fetch", !.documentId = id]
    /\ UNCHANGED <<isSaving, error, signedDocument, mobileSignatureComplete,
                   fetches, channels, changes>>
    /\ UNCHANGED saveRest
    /\ UNCHANGED uiVars
    /\ UNCHANGED pdfOut

\* lines 273, 285, 288-293: the insert failed (saveError, or no row returned)
saveInsertFail ==
    /\ saveCtx.phase = "insert"
    /\ saveCtx' = Idle
    /\ IF mounted
       THEN error' = PersistError /\ isSaving' = FALSE
       ELSE UNCHANGED <<error, isSaving>>
    /\ UNCHANGED <<signedDocument, mobileSignatureComplete>>
    /\ UNCHANGED saveRest
    /\ UNCHANGED uiVars
    /\ UNCHANGED envVars
    /\ UNCHANGED pdfOut

\* lines 277-283, 291-293: getSignedDocument returned the record
saveFetchOk ==
    /\ saveCtx.phase = "fetch"
    /\ saveCtx' = Idle
    /\ IF mounted
       THEN /\ signedDocument' = getSignedDocument(saveCtx.documentId)
            /\ mobileSignatureComplete' = (isMobile \/ mobileSignatureComplete)
            /\ isSaving' = FALSE
       ELSE UNCHANGED <<signedDocument, mobileSignatureComplete, isSaving>>
    /\ UNCHANGED error
    /\ UNCHANGED saveRest
    /\ UNCHANGED uiVars
    /\ UNCHANGED envVars
    /\ UNCHANGED pdfOut

\* lines 133-135, 288-293: getSignedDocument threw
saveFetchFail ==
    /\ saveCtx.phase = "fetch"
    /\ saveCtx' = Idle
    /\ IF mounted
       THEN error' = PersistError /\ isSaving' = FALSE
       ELSE UNCHANGED <<error, isSaving>>
    /\ UNCHANGED <<signedDocument, mobileSignatureComplete>>
    /\ UNCHANGED saveRest
    /\ UNCHANGED uiVars
    /\ UNCHANGED envVars
    /\ UNCHANGED pdfOut

(***************************************************************************)
(* The realtime subscription (lines 316-338) and the other devices.        *)
(***************************************************************************)
handlerRest == <<mounted, templateId, template, pdfUrl, isSaving, error,
                 isMobile, isSigningMode, mobileSignatureComplete, loads, saveCtx>>

\* Another device's page inserts a row (its own handleSave, lines 264-271),
\* while this page is there to hear of it.
RemoteInsert(tid, fv) ==
    /\ mounted
    /\ Len(store) < MaxRows
    /\ tid \in TemplateIds /\ fv \in RemoteForms(tid)
    /\ store' = Append(store, Row(Len(store) + 1, tid, fv, "remote"))
    /\ events' = Notify(Len(store) + 1)
    /\ UNCHANGED <<formValues, success, signedDocument, fetches, channels, changes>>
    /\ UNCHANGED handlerRest
    /\ UNCHANGED uiVars
    /\ UNCHANGED pdfOut

handleInsertEvent_noFilter ==
    /\ events # <<>>
    /\ events' = Tail(events)
    /\ fetches' = fetches \cup {[id |-> Head(events), closure |-> c] : c \in channels}
    /\ UNCHANGED <<formValues, success, signedDocument, store, channels, changes>>
    /\ UNCHANGED handlerRest
    /\ UNCHANGED uiVars
    /\ UNCHANGED pdfOut

\* lines 319-322: a notification arrives; the handler compares template_id
\* with the templateId of its closure and calls getSignedDocument
handleInsertEvent ==
    /\ events # <<>>
    /\ events' = Tail(events)
    /\ fetches' = fetches \cup
          {[id |-> Head(events), closure |-> c] :
              c \in {d \in channels : store[Head(events)].template_id = d}}
    /\ UNCHANGED <<formValues, success, signedDocument, store, channels, changes>>
    /\ UNCHANGED handlerRest
    /\ UNCHANGED uiVars
    /\ UNCHANGED pdfOut

\* lines 323-330: the record arrived
handlerFetchOk(f) ==
    /\ f \in fetches
    /\ fetches' = fetches \ {f}
    /\ IF mounted
       THEN /\ signedDocument' = getSignedDocument(f.id)
            /\ formValues' = MergeFormValues(formValues,
                                             getSignedDocument(f.id).form_values)
            /\ success' = TRUE
       ELSE UNCHANGED <<signedDocument, formValues, success>>
    /\ UNCHANGED <<store, events, channels, changes>>
    /\ UNCHANGED handlerRest
    /\ UNCHANGED uiVars
    /\ UNCHANGED pdfOut

\* lines 133-135: getSignedDocument threw inside the handler
handlerFetchFail(f) ==
    /\ f \in fetches
    /\ fetches' = fetches \ {f}
    /\ UNCHANGED <<formValues, success, signedDocument, store, events, channels, changes>>
    /\ UNCHANGED handlerRest
    /\ UNCHANGED uiVars
    /\ UNCHANGED pdfOut

Next ==
    \/ \E t \in TemplateIds : loadTemplateOk(t)
    \/ \E t \in TemplateIds : loadTemplateFail(t)
    \/ TryAgain
    \/ \E t \in TemplateIds : ChangeTemplate(t)
    \/ Leave
    \/ \E i \in 1..MaxFields : handleFieldClick(i)
    \/ DrawSignature
    \/ SignOnMobile
    \/ \E d \in SignatureInputs : handleSignatureSave(d)
    \/ \E i \in 1..MaxFields, v \in TextInputs : handleInputChange(i, v)
    \/ handleCancelSignature
    \/ QRCancel
    \/ handleNextField
    \/ handleSave
    \/ saveInsertOk
    \/ saveInsertFail
    \/ saveFetchOk
    \/ saveFetchFail
    \/ \E tid \in TemplateIds : \E fv \in RemoteForms(tid) : RemoteInsert(tid, fv)
    \/ handleInsertEvent
    \/ \E f \in fetches : handlerFetchOk(f)
    \/ \E f \in fetches : handlerFetchFail(f)

Spec == Init /\ [][Next]_vars

(***************************************************************************)
(* validateForm on drawn inputs: every template of up to MaxFields fields  *)
(* and every value map of values of up to MaxValLen characters, with the   *)
(* Submit button on screen; the one action is the click on it.             *)
(***************************************************************************)
TypeOf(label) == IF label = "Sig" THEN "signature" ELSE "text"
FieldDefs == {Field(l, TypeOf(l), r, 50, 100, 1) : l \in {"Name", "Sig"}, r \in BOOLEAN}
TemplateFamily == {Template("T", fs) : fs \in SeqsUpTo(FieldDefs, MaxFields)}
ValueMaps == UNION {[D -> SeqsUpTo(Chars, MaxValLen)] : D \in SUBSET {"Name", "Sig"}}

InitValidate ==
    /\ mounted = TRUE
    /\ templateId = "T"
    /\ template \in TemplateFamily
    /\ pdfUrl = <<"url">> \o template.file_path
    /\ formValues \in ValueMaps
    /\ showSignaturePad = FALSE
    /\ activeField = NULL
    /\ isSaving = FALSE
    /\ error = NoError
    /\ success = FALSE
    /\ currentPage = 1
    /\ showQRCode = FALSE
    /\ currentFieldIndex = IF Len(template.fields) = 0 THEN 0 ELSE Len(template.fields) - 1
    /\ signedDocument = NoDoc
    /\ isMobile = FALSE
    /\ isSigningMode = FALSE
    /\ mobileSignatureComplete = FALSE
    /\ loads = {}
    /\ saveCtx = Idle
    /\ store = <<>>
    /\ events = <<>>
    /\ fetches = {}
    /\ channels = {templateId}
    /\ changes = 0
    /\ pdfOut = NoOutput

NextValidate == handleSave

SpecValidate == InitValidate /\ [][NextValidate]_vars

(***************************************************************************)
(* The Download Signed Document button of the thank-you screen (lines      *)
(* 407-420), on a page that holds a signed document.                       *)
(***************************************************************************)
\* line 413: onClick={() => downloadSignedPdf(signedDocument)}
downloadSignedPdf(resp) ==
    /\ FullPage
    /\ success
    /\ signedDocument # NoDoc
    /\ pdfOut' = flatten(signedDocument, resp)
    /\ UNCHANGED <<mounted, templateId, template, pdfUrl, formValues, isSaving,
                   error, success, signedDocument, isMobile, isSigningMode,
                   mobileSignatureComplete, loads, saveCtx>>
    /\ UNCHANGED uiVars
    /\ UNCHANGED envVars

\* The signed documents drawn: templates of up to n fields of every type on
\* pages 0..2 (the documents have one or two pages).  A text field has no
\* value, an empty one or a text, a date field one of the two an
\* <input type="date"> yields; a signature field has no value, an
\* empty one, or a payload that has no comma, is a PNG image, is base64 text
\* that is no PNG, or is no base64.
FlattenLabels == <<"Name", "Sig", "Date", "Note">>
FlattenValues(type) ==
    IF type = "signature"
    THEN {Undefined, <<>>, <<"x">>, <<"h", ",", "A">>, <<"h", ",", "t">>, <<"h", ",", "!">>}
    ELSE IF type = "date" THEN {<<>>, <<"x">>}
    ELSE {Undefined, <<>>, <<"x">>}
FlattenCases ==
    UNION {{[type |-> t, pageNumber |-> n, value |-> v] : n \in 0..2, v \in FlattenValues(t)} :
              t \in {"text", "date", "signature"}}
\* field i of a drawn template sits at (50 i, 200 i - 100)
FlattenDoc(cs) ==
    [id |-> 1, template_id |-> "T",
     form_values |-> [l \in {FlattenLabels[i] : i \in {j \in DOMAIN cs : cs[j].value # Undefined}} |->
                         cs[CHOOSE i \in DOMAIN cs : FlattenLabels[i] = l].value],
     template |-> Template("T", [i \in DOMAIN cs |->
                     Field(FlattenLabels[i], cs[i].type, TRUE, 50 * i, 200 * i - 100,
                           cs[i].pageNumber)])]

\* the thank-you screen after the INSERT handler stored the record (327-329)
InitFlatten ==
    /\ mounted = TRUE
    /\ templateId = "T"
    /\ \E n \in 1..MaxFields : \E cs \in [1..n -> FlattenCases] :
          signedDocument = FlattenDoc(cs)
    /\ template = signedDocument.template
    /\ pdfUrl = <<"url">> \o template.file_path
    /\ formValues = signedDocument.form_values
    /\ showSignaturePad = FALSE
    /\ activeField = NULL
    /\ isSaving = FALSE
    /\ error = NoError
    /\ success = TRUE
    /\ currentPage = 1
    /\ showQRCode = FALSE
    /\ currentFieldIndex = 0
    /\ isMobile = FALSE
    /\ isSigningMode = FALSE
    /\ mobileSignatureComplete = FALSE
    /\ loads = {}
    /\ saveCtx = Idle
    /\ store = <<Row(1, "T", signedDocument.form_values, "remote")>>
    /\ events = <<>>
    /\ fetches = {}
    /\ channels = {templateId}
    /\ changes = 0
    /\ pdfOut = NoOutput

NextFlatten == \E resp \in StorageResponses : downloadSignedPdf(resp)

SpecFlatten == InitFlatten /\ [][NextFlatten]_vars

(***************************************************************************)
(* Properties.                                                             *)
(***************************************************************************)
\* a value that is all white space, the empty string included
Blank(v) == \A k \in 1..Len(v) : v[k] = SP

\* the labels of the required fields of t that fv leaves missing or blank
RequiredMissing(t, fv) ==
    {t.fields[i].label :
        i \in {j \in 1..Len(t.fields) :
                 /\ t.fields[j].required
                 /\ \/ t.fields[j].label \notin DOMAIN fv
                    \/ Blank(fv[t.fields[j].label])}}

\* the record a select of row r of signed_documents yields
RecordOf(r) ==
    [id |-> r.id, template_id |-> r.template_id, form_values |-> r.form_values,
     template |-> TemplateDB[r.template_id]]

\* C1: handleSave issues the insert only with a formValues map in which every
\* required field of the session's loaded template has a non-blank value; a
\* row inserted by the session carries exactly the map of that request; and
\* a step on which validateForm reports missing fields issues no insert.
C1_InsertOnlyWhenValid ==
    [][ /\ (saveCtx.phase # "insert" /\ saveCtx'.phase = "insert")
            => /\ template # NoTemplate
               /\ RequiredMissing(template, saveCtx'.form_values) = {}
        /\ (Len(store') > Len(store) /\ store'[Len(store')].origin = "local")
            => /\ saveCtx.phase = "insert"
               /\ store'[Len(store')].form_values = saveCtx.form_values
               /\ store'[Len(store')].template_id = saveCtx.template_id
        /\ (error'.kind = "validation" /\ error' # error)
            => /\ RequiredMissing(template, formValues) # {}
               /\ UNCHANGED <<saveCtx, store, isSaving>>
      ]_vars

\* a row inserted by this session's submit is in the store
C1_Witness ==
    \E i \in 1..Len(store) :
        /\ store[i].origin = "local"
        /\ store[i].template_id = "A"
        /\ store[i].form_values = [l \in {"Name", "Sig"} |-> <<"x">>]

\* C2: validateForm returns true exactly when no required field of the
\* template is missing or blank in the value map, and the labels it reports
\* are exactly the labels of those fields.
C2_ValidateMatchesReference ==
    /\ validateForm(template, formValues) <=> RequiredMissing(template, formValues) = {}
    /\ Range(MissingLabels(template, formValues)) = RequiredMissing(template, formValues)
    /\ error.kind = "validation"
          => /\ Range(error.labels) = RequiredMissing(template, formValues)
             /\ error.labels # <<>>
    /\ isSaving => RequiredMissing(template, formValues) = {}

\* of two required fields exactly one is left blank (white space only), and
\* the click on Submit reported exactly that one
C2_Witness ==
    /\ Len(template.fields) = 2
    /\ template.fields[1].required /\ template.fields[2].required
    /\ "Name" \in DOMAIN formValues /\ formValues["Name"] = <<SP, SP>>
    /\ "Sig" \in DOMAIN formValues /\ formValues["Sig"] = <<"x">>
    /\ error = ValidationError(<<"Name">>)

\* C3: on the capture screen of the secondary device, saving the signature
\* issues the insert of a row with template_id = templateId and the captured
\* formValues.
C3_CaptureSaveInserts ==
    [][ \A d \in SignatureInputs :
          (CaptureScreen /\ handleSignatureSave(d))
             => /\ saveCtx'.phase = "insert"
                /\ saveCtx'.template_id = templateId
                /\ saveCtx'.form_values = formValues'
      ]_vars

\* C4: success only if a row with template_id = templateId is in the store.
C4_SuccessNeedsRow ==
    success => \E i \in 1..Len(store) : store[i].template_id = templateId

\* C5: once success is true it stays true.
C5_SubmittedIsTerminal == [][success => success']_vars

\* the page is submitted for a document of A and has since loaded template B
C5_Witness ==
    /\ success
    /\ signedDocument # NoDoc /\ signedDocument.template_id = "A"
    /\ template = TemplateDB["B"]
    /\ templateId = "B"

\* C6: when the handler's fetch of a row inserted by another device for the
\* active templateId returns, signedDocument is that record, formValues
\* agrees with the record on each of its labels, and success is true.
C6_HandoffCompletion ==
    [][ \A f \in fetches :
          (/\ handlerFetchOk(f)
           /\ mounted
           /\ store[f.id].origin = "remote"
           /\ store[f.id].template_id = templateId)
             => /\ signedDocument' = RecordOf(store[f.id])
                /\ \A l \in DOMAIN store[f.id].form_values :
                      /\ l \in DOMAIN formValues'
                      /\ formValues'[l] = store[f.id].form_values[l]
                /\ success'
      ]_vars

\* the page had its own, blank Name and now holds another device's record
C6_Witness ==
    /\ mounted /\ success
    /\ signedDocument # NoDoc
    /\ store[signedDocument.id].origin = "remote"
    /\ signedDocument.template_id = templateId
    /\ error = ValidationError(<<"Name", "Sig">>)
    /\ formValues = signedDocument.form_values

\* C7: once a completion was accepted, a later matching creation event
\* leaves signedDocument and formValues unchanged.
C7_FirstCompletionWins ==
    [][ \A f \in fetches :
          (/\ handlerFetchOk(f)
           /\ mounted /\ success
           /\ store[f.id].template_id = templateId)
             => /\ signedDocument' = signedDocument
                /\ formValues' = formValues
      ]_vars

\* C8: a submit that ends in PersistError has persisted no row, leaves the
\* session not submitted, signedDocument and formValues as they were, and
\* isSaving false.
C8_PersistErrorCommitsNothing ==
    [][ (isSaving /\ saveCtx.phase # "idle" /\ saveCtx'.phase = "idle"
           /\ error' = PersistError)
          => /\ saveCtx.documentId = 0
             /\ \A i \in 1..Len(store') :
                   ~(store'[i].origin = "local" /\ i = saveCtx.documentId)
             /\ ~success'
             /\ signedDocument' = signedDocument
             /\ formValues' = formValues
             /\ ~isSaving'
      ]_vars

\* C9: the keys of formValues are labels of the active template's fields.
C9_KeysAreLabels == DOMAIN formValues \subseteq Labels(TemplateDB[templateId])

\* C10: with a non-empty template loaded, the active field index does not
\* exceed the index of the last field.
C10_IndexWithinFields ==
    (template # NoTemplate /\ Len(template.fields) > 0)
        => currentFieldIndex <= Len(template.fields) - 1

\* C11: the index moves from i to i+1 only in a state where formValues holds
\* a non-empty value under the label of field i of the loaded template, and
\* the Submit button issues its insert only with the index at (or past) the
\* last field.
C11_AdvanceNeedsValue ==
    [][ /\ currentFieldIndex' # currentFieldIndex
            => /\ currentFieldIndex' = currentFieldIndex + 1
               /\ template # NoTemplate
               /\ currentFieldIndex + 1 <= Len(template.fields)
               /\ template.fields[currentFieldIndex + 1].label \in DOMAIN formValues
               /\ formValues[template.fields[currentFieldIndex + 1].label] # <<>>
        /\ (saveCtx.phase # "insert" /\ saveCtx'.phase = "insert")
            => currentFieldIndex >= Len(template.fields) - 1
        /\ (error'.kind = "validation" /\ error' # error)
            => currentFieldIndex >= Len(template.fields) - 1
      ]_vars

\* on template A the user advanced past a Name of one space and submitted
C11_Witness ==
    /\ template = TemplateDB["A"]
    /\ currentFieldIndex = 1
    /\ formValues = [l \in {"Name"} |-> <<SP>>]
    /\ error = ValidationError(<<"Name", "Sig">>)

\* C12: while the page is mounted exactly one channel is live and its handler
\* closes over the current templateId; after the page is left none is live.
C12_OneOwnedChannel ==
    /\ mounted => channels = {templateId}
    /\ ~mounted => channels = {}

\* the route parameter changed and the page was then left
C12_Witness == ~mounted /\ changes = 1 /\ templateId = "B" /\ channels = {}

\* C13: cancelling a capture (pad modal, QR modal, capture screen) issues no
\* insert and leaves formValues, the field index and success unchanged; and
\* success is true only if a row for templateId has been inserted.
C13_CancelPersistsNothing ==
    [][ /\ (handleCancelSignature \/ QRCancel \/ (CaptureScreen /\ Leave))
            => UNCHANGED <<formValues, currentFieldIndex, success, store, saveCtx>>
        /\ success' => \E i \in 1..Len(store') : store'[i].template_id = templateId'
      ]_vars

\* the signed document with field i taken out of its template
Without(doc, i) ==
    [doc EXCEPT !.template.fields =
        SubSeq(doc.template.fields, 1, i - 1)
        \o SubSeq(doc.template.fields, i + 1, Len(doc.template.fields))]

\* the fields of the signed document and the pages the last call was given
DocFields == signedDocument.template.fields
SourcePages == pdfOut.source.data.pages
SourceLoads == pdfOut.source.error = NULL /\ pdfOut.source.data.kind = "pdf"
OnPage(i) == DocFields[i].position.pageNumber \in 1..Len(SourcePages)
ValueAt(i) == Get(signedDocument.form_values, DocFields[i].label)
OpsFor(i) == {k \in 1..Len(pdfOut.ops) : pdfOut.ops[k].label = DocFields[i].label}

\* a signature payload that does not decode to a PNG image
Malformed(v) ==
    ~ (/\ AfterComma(v) # Undefined
       /\ \A k \in 1..Len(AfterComma(v)) : AfterComma(v)[k] \in {"A", "t"}
       /\ AfterComma(v) # <<>>
       /\ AfterComma(v)[1] = "A")

\* C14: a call whose source loads completes without error, and for every
\* signature field with a malformed payload the operations drawn are those
\* drawn for the same document without that field.
C14_MalformedSignatureSkipped ==
    (pdfOut.status # "idle" /\ SourceLoads)
        => /\ pdfOut.status = "saved"
           /\ \A i \in 1..Len(DocFields) :
                (/\ DocFields[i].type = "signature"
                 /\ ~Falsy(ValueAt(i))
                 /\ Malformed(ValueAt(i)))
                    => pdfOut.ops = drawFields(Without(signedDocument, i), SourcePages, 1).ops

\* a malformed signature on an existing page next to a text that was drawn
C14_Witness ==
    /\ pdfOut.status = "saved"
    /\ Len(DocFields) = 2
    /\ DocFields[2].type = "signature" /\ OnPage(2)
    /\ ValueAt(2) = <<"h", ",", "!">>
    /\ DocFields[1].type = "text" /\ ValueAt(1) = <<"x">>
    /\ Len(pdfOut.ops) = 1 /\ pdfOut.ops[1].text = <<"x">>

\* C15: a call whose source loads completes without error, and for every
\* field whose pageNumber is below 1 or above the page count the operations
\* drawn are those drawn for the same document without that field.
C15_OutOfRangeFieldSkipped ==
    (pdfOut.status # "idle" /\ SourceLoads)
        => /\ pdfOut.status = "saved"
           /\ \A i \in 1..Len(DocFields) :
                ~OnPage(i)
                    => pdfOut.ops = drawFields(Without(signedDocument, i), SourcePages, 1).ops

\* a field on page 2 of a one-page document, before a field that was drawn
C15_Witness ==
    /\ pdfOut.status = "saved"
    /\ Len(SourcePages) = 1
    /\ Len(DocFields) = 2
    /\ DocFields[1].position.pageNumber = 2 /\ ValueAt(1) = <<"x">>
    /\ Len(pdfOut.ops) = 1 /\ pdfOut.ops[1].label = DocFields[2].label

\* C16: every operation drawn for a field at (x, y) on a page of height H
\* has the field's x; a text is drawn at y = H - y; an image is drawn with
\* half its native width and height h at y = H - y - h.  Every text or date
\* field on an existing page has its text operation, every signature field
\* there with a PNG payload its image operation.
C16_CoordinateConversion ==
    pdfOut.status = "saved"
        => \A i \in 1..Len(DocFields) :
             LET f == DocFields[i]
                 H == SourcePages[f.position.pageNumber]
             IN  /\ \A k \in OpsFor(i) :
                      LET op == pdfOut.ops[k]
                      IN  /\ OnPage(i)
                          /\ op.page = f.position.pageNumber
                          /\ op.x = f.position.x
                          /\ op.kind = "text" => op.y = H - f.position.y
                          /\ op.kind = "image"
                               => /\ 2 * op.width = PngSize.width
                                  /\ 2 * op.height = PngSize.height
                                  /\ op.y = H - f.position.y - op.height
                 /\ (OnPage(i) /\ f.type # "signature")
                      => \E k \in OpsFor(i) :
                            /\ pdfOut.ops[k].kind = "text"
                            /\ pdfOut.ops[k].text = (IF Falsy(ValueAt(i)) THEN <<>> ELSE ValueAt(i))
                 /\ (OnPage(i) /\ f.type = "signature" /\ ~Falsy(ValueAt(i))
                       /\ ~Malformed(ValueAt(i)))
                      => \E k \in OpsFor(i) : pdfOut.ops[k].kind = "image"

\* a text and a signature image drawn on page 2, of height 500
C16_Witness ==
    /\ pdfOut.status = "saved"
    /\ Len(pdfOut.ops) = 2
    /\ pdfOut.ops[1].kind = "text" /\ pdfOut.ops[1].page = 2
    /\ pdfOut.ops[1].y = 500 - DocFields[1].position.y
    /\ pdfOut.ops[2].kind = "image" /\ pdfOut.ops[2].page = 2
    /\ pdfOut.ops[2].y = 500 - DocFields[2].position.y - 50

\* C17 as stated: for a field whose value is missing or empty no operation
\* is drawn, and no text operation is drawn for a signature field.
C17_EmptyValueNoOperation ==
    pdfOut.status = "saved"
        => \A i \in 1..Len(DocFields) :
             /\ Falsy(ValueAt(i)) => OpsFor(i) = {}
             /\ DocFields[i].type = "signature"
                  => \A k \in OpsFor(i) : pdfOut.ops[k].kind = "image"

\* C17: for a field whose value is missing or empty, of any type and on an
\* existing page, exactly one operation is drawn, a text operation of the
\* empty string at (x, H - y), and no image; for a signature field with a
\* non-empty value no text operation is drawn.
C17_EmptyValueDrawsEmptyText ==
    pdfOut.status = "saved"
        => \A i \in 1..Len(DocFields) :
             /\ (Falsy(ValueAt(i)) /\ OnPage(i))
                  => /\ Cardinality(OpsFor(i)) = 1
                     /\ \A k \in OpsFor(i) :
                          /\ pdfOut.ops[k].kind = "text"
                          /\ pdfOut.ops[k].text = <<>>
                          /\ pdfOut.ops[k].x = DocFields[i].position.x
                          /\ pdfOut.ops[k].y = SourcePages[DocFields[i].position.pageNumber]
                                                 - DocFields[i].position.y
             /\ (DocFields[i].type = "signature" /\ ~Falsy(ValueAt(i)))
                  => \A k \in OpsFor(i) : pdfOut.ops[k].kind = "image"

\* a signature field without a value and a text field with an empty one
C17_Witness ==
    /\ pdfOut.status = "saved"
    /\ Len(DocFields) = 2
    /\ DocFields[1].type = "signature" /\ DocFields[1].label \notin DOMAIN signedDocument.form_values
    /\ DocFields[2].type = "text" /\ ValueAt(2) = <<>>
    /\ Len(pdfOut.ops) = 2
    /\ pdfOut.ops[1].kind = "text" /\ pdfOut.ops[1].text = <<>>

\* C18: a call given a storage response with an error, without data, or with
\* data that is no PDF document ends in the rethrown error with nothing
\* drawn and nothing saved, leaves signedDocument, formValues, success and
\* the stored row as they were, and leaves the Download button in place.
C18_SourceFailureIsClean ==
    [][ \A resp \in StorageResponses :
          (downloadSignedPdf(resp) /\ (resp.error # NULL \/ resp.data.kind # "pdf"))
            => /\ pdfOut'.status = "error"
               /\ pdfOut'.ops = <<>>
               /\ UNCHANGED <<signedDocument, formValues, success, store>>
               /\ success' /\ signedDocument' # NoDoc /\ template' # NoTemplate
      ]_vars

\* a call that was given bytes that are no PDF document
C18_Witness ==
    /\ pdfOut.status = "error"
    /\ pdfOut.source.data.kind = "garbage"
    /\ success
    /\ Len(DocFields) = 2
    /\ ValueAt(1) = <<"x">>

\* C19: when handleSave completes after a successful insert and record
\* fetch on a mounted page, success is true.
C19_LocalSubmitSubmits ==
    [][ (mounted /\ saveFetchOk) => success' ]_vars

\* C20: once a row inserted by this session's submit is in the store, the
\* session issues no further insert; and no insert starts while one is in
\* flight.
C20_AtMostOneInsert ==
    [][ (saveCtx'.phase = "insert" /\ saveCtx' # saveCtx)
          => /\ ~isSaving /\ saveCtx.phase = "idle"
             /\ \A i \in 1..Len(store) : store[i].origin # "local"
      ]_vars

\* C21: the delivery of an INSERT notification whose row has a template_id
\* other than the session's templateId starts no record fetch and leaves
\* signedDocument, formValues and success unchanged.
C21_OtherTemplateIgnored ==
    [][ (handleInsertEvent /\ store[Head(events)].template_id # templateId)
          => /\ fetches' = fetches
             /\ UNCHANGED <<signedDocument, formValues, success>>
      ]_vars

\* a row of template B was inserted and its notification delivered to the
\* session of template A, which fetched nothing
C21_Witness ==
    /\ mounted /\ changes = 0 /\ templateId = "A"
    /\ Len(store) = 1 /\ store[1].template_id = "B"
    /\ events = <<>> /\ fetches = {}
    /\ ~success /\ signedDocument = NoDoc

\* C22: a handler whose channel has been removed leaves signedDocument,
\* formValues and success unchanged when its record fetch completes, and
\* the session never takes up a signed document of another template than
\* its templateId.
C22_NoEffectAfterTeardown ==
    [][ /\ \A f \in fetches :
              (handlerFetchOk(f) /\ f.closure \notin channels)
                 => UNCHANGED <<signedDocument, formValues, success>>
        /\ signedDocument' # signedDocument
              => signedDocument'.template_id = templateId'
      ]_vars

====
